---------------------------- MODULE Spec2Model ----------------------------
(***************************************************************************)
(* The job-submission document model of the web portal:                    *)
(*   DockerInfo   (models/docker-info.js)   a container image reference    *)
(*                and its secret-reference substitution,                   *)
(*   JobProtocol  (models/job-protocol.js)  the job document, its YAML     *)
(*                round trip and getUpdatedProtocol.                       *)
(* JavaScript values are modelled as tagged records so that a string, a    *)
(* number, null, undefined, an object and an array stay distinguishable.   *)
(***************************************************************************)
EXTENDS Integers, Sequences, FiniteSets, TLC

VARIABLES
  \* DockerInfo.fromProtocol / convertToProtocolFormat
  dockerInfoProtocol,   \* the raw prerequisite handed to fromProtocol
  secrets,              \* the secret mapping handed to fromProtocol
  globalName,           \* the global `name` read at docker-info.js:37
  now,                  \* the clock read by Date.now()
  dockerInfo,           \* the DockerInfo built by fromProtocol
  prerequisite,         \* the result of convertToProtocolFormat
  \* JobProtocol.getUpdatedProtocol
  receiver,             \* `this` of getUpdatedProtocol
  jobBasicInfo, jobTaskRoles, jobParameters, jobSecrets,
  updated,              \* the document getUpdatedProtocol returns
  \* JobProtocol constructor / toYaml / fromYaml
  props,                \* the argument of the constructor
  jobProtocol,          \* the constructed document (or the error thrown)
  protocolYaml,         \* the text produced by toYaml / handed to fromYaml
  parsed,               \* what fromYaml returned
  alerts                \* number of alert() calls made so far

dockerVars == <<dockerInfoProtocol, secrets, globalName, now, dockerInfo, prerequisite>>
updateVars == <<receiver, jobBasicInfo, jobTaskRoles, jobParameters, jobSecrets, updated>>
yamlVars == <<props, jobProtocol, protocolYaml, parsed, alerts>>
vars == <<dockerVars, updateVars, yamlVars>>

(***************************************************************************)
(* JavaScript values                                                       *)
(***************************************************************************)
JsValue(t, s, n, o, a) == [t |-> t, s |-> s, n |-> n, o |-> o, a |-> a]

Undefined == JsValue("undefined", "", 0, <<>>, <<>>)

Null == JsValue("null", "", 0, <<>>, <<>>)

Str(x) == JsValue("string", x, 0, <<>>, <<>>)

Num(k) == JsValue("number", "", k, <<>>, <<>>)

Bool(b) == JsValue("boolean", "", IF b THEN 1 ELSE 0, <<>>, <<>>)

\* a plain object: f maps its own property names to values
Obj(f) == JsValue("object", "", 0, f, <<>>)

Arr(q) == JsValue("array", "", 0, <<>>, q)

\* a member inherited from Object.prototype (constructor, toString, ...)
Builtin(k) == JsValue("function", k, 0, <<>>, <<>>)

\* an exception thrown instead of a value being returned
TypeError == JsValue("TypeError", "", 0, <<>>, <<>>)

YAMLException == JsValue("YAMLException", "", 0, <<>>, <<>>)

\* no call has produced this value yet
None == JsValue("none", "", 0, <<>>, <<>>)

EmptyObject == Obj(<<>>)

\* names every plain object inherits from Object.prototype
ObjectPrototypeKeys == {"constructor", "__proto__", "toString", "valueOf", "hasOwnProperty"}

\* lodash isNil
isNil(v) == v.t \in {"undefined", "null"}

\* lodash isEmpty: strings, arrays and objects by their size, anything else is empty
isEmpty(v) ==
  CASE v.t = "string" -> v.s = ""
    [] v.t = "array" -> v.a = <<>>
    [] v.t = "object" -> DOMAIN v.o = {}
    [] OTHER -> TRUE

\* the truthiness `x || d` tests
Truthy(v) ==
  CASE v.t \in {"undefined", "null"} -> FALSE
    [] v.t = "string" -> v.s # ""
    [] v.t \in {"number", "boolean"} -> v.n # 0
    [] OTHER -> TRUE

\* x || d
Or(x, d) == IF Truthy(x) THEN x ELSE d

\* v[k]: an own property, else what the prototype chain gives
GetProp(v, k) ==
  IF v.t = "object" /\ k \in DOMAIN v.o THEN v.o[k]
  ELSE IF ~isNil(v) /\ k \in ObjectPrototypeKeys THEN Builtin(k)
  ELSE Undefined

\* the own enumerable properties {...v} copies (none for null and undefined)
OwnProps(v) == IF v.t = "object" THEN v.o ELSE <<>>

\* {...a, ...b}: later properties win
Spread(a, b) == Obj(OwnProps(b) @@ OwnProps(a))

\* {...a, k: v}
With(a, k, v) == Obj((k :> v) @@ OwnProps(a))

\* o[k] = v on a plain object: `__proto__` reaches the accessor of
\* Object.prototype, which creates no own property
SetProp(obj, k, v) == IF k = "__proto__" THEN obj ELSE With(obj, k, v)

\* lodash get(v, path, default): the default stands in for undefined only
RECURSIVE get(_, _, _)
get(v, path, default) ==
  IF path = <<>> THEN (IF v.t = "undefined" THEN default ELSE v)
  ELSE IF isNil(v) THEN default
  ELSE get(GetProp(v, Head(path)), Tail(path), default)

\* String(v): the string a regular expression sees of its argument
StringOf(v) ==
  CASE v.t = "string" -> v.s
    [] v.t = "number" -> ToString(v.n)
    [] OTHER -> v.t

(***************************************************************************)
(* utils.js (not among the sources): removeEmptyProperties and             *)
(* keyValueArrayReducer as the specification describes them.               *)
(***************************************************************************)
\* a value pruning removes: an empty string, mapping or sequence
EmptyPrunable(v) ==
  \/ v.t = "string" /\ v.s = ""
  \/ v.t = "object" /\ DOMAIN v.o = {}
  \/ v.t = "array" /\ v.a = <<>>

RECURSIVE removeEmptyProperties(_)
removeEmptyProperties(v) ==
  IF v.t = "object"
  THEN LET inner == [k \in DOMAIN v.o |->
                       IF v.o[k].t \in {"object", "array"}
                       THEN removeEmptyProperties(v.o[k]) ELSE v.o[k]]
           kept == {k \in DOMAIN v.o : ~EmptyPrunable(inner[k])}
       IN Obj([k \in kept |-> inner[k]])
  ELSE IF v.t = "array"
  THEN Arr([i \in DOMAIN v.a |->
             IF v.a[i].t \in {"object", "array"}
             THEN removeEmptyProperties(v.a[i]) ELSE v.a[i]])
  ELSE v

\* (acc, cur) => ({...acc, ...cur})
keyValueArrayReducer(acc, cur) == Spread(acc, cur)

\* array.reduce(f, init) for f = keyValueArrayReducer
RECURSIVE reduce(_, _)
reduce(q, acc) ==
  IF q = <<>> THEN acc ELSE reduce(Tail(q), keyValueArrayReducer(acc, Head(q)))

(***************************************************************************)
(* docker-info.js                                                          *)
(***************************************************************************)
Lower == {"a","b","c","d","e","f","g","h","i","j","k","l","m",
          "n","o","p","q","r","s","t","u","v","w","x","y","z"}

Upper == {"A","B","C","D","E","F","G","H","I","J","K","L","M",
          "N","O","P","Q","R","S","T","U","V","W","X","Y","Z"}

Digit == {"0","1","2","3","4","5","6","7","8","9"}

\* [a-zA-Z_]
IdentStart == Lower \cup Upper \cup {"_"}

\* [a-zA-Z0-9_]
IdentChar == IdentStart \cup Digit

LineTerminators == {"\n", "\r"}

CharAt(s, i) == SubSeq(s, i, i)

\* the literal p stands in s at position i
LiteralAt(s, i, p) == i + Len(p) - 1 <= Len(s) /\ SubSeq(s, i, i + Len(p) - 1) = p

\* the position after the longest run of [a-zA-Z0-9_] starting at i
RECURSIVE IdentEnd(_, _)
IdentEnd(s, i) ==
  IF i <= Len(s) /\ CharAt(s, i) \in IdentChar THEN IdentEnd(s, i + 1) ELSE i

\* SECRET_PATTERN.exec(v) for /^<% \$secrets.([a-zA-Z_][a-zA-Z0-9_]*) %>/ :
\* [whole match, group 1] or null.  The `.` after `secrets` is unescaped and
\* stands for any character but a line break; nothing anchors the end.
SECRET_PATTERN_exec(v) ==
  LET s == StringOf(v)
      dot == Len("<% $secrets") + 1
      first == dot + 1
      last == IdentEnd(s, first + 1)
  IN IF /\ LiteralAt(s, 1, "<% $secrets")
        /\ dot <= Len(s)
        /\ CharAt(s, dot) \notin LineTerminators
        /\ first <= Len(s)
        /\ CharAt(s, first) \in IdentStart
        /\ LiteralAt(s, last, " %>")
     THEN Arr(<<Str(SubSeq(s, 1, last + 2)), Str(SubSeq(s, first, last - 1))>>)
     ELSE Null

\* new DockerInfo(props), with `name` the global of that name and t the clock
DockerInfo(p, name, t) ==
  LET uri == GetProp(p, "uri")
      auth == GetProp(p, "auth")
      secretRef == GetProp(p, "secretRef")
  IN Obj([uri |-> Or(uri, Str("")),
          auth |-> Or(auth, EmptyObject),
          updateTime |-> Num(t),
          secretRef |-> IF ~isEmpty(secretRef) THEN secretRef ELSE Str(""),
          name |-> Or(name, Str(""))])

\* SecretKeyOf reading the whole match instead of group 1
SecretKeyOf_WholeMatch(secretRef) ==
  LET m == SECRET_PATTERN_exec(secretRef)
  IN IF isEmpty(m) THEN Str("") ELSE m.a[1]

\* the secret key fromProtocol reads out of the match (line 45)
SecretKeyOf(secretRef) ==
  LET m == SECRET_PATTERN_exec(secretRef)
  IN IF isEmpty(m) THEN Str("") ELSE m.a[2]

\* the test of line 46
SecretResolves(secretKey, secretMap) ==
  ~isEmpty(secretKey) /\ ~isNil(GetProp(secretMap, secretKey.s))

\* DockerInfo.fromProtocol(dockerInfoProtocol, secrets)
fromProtocol(raw, secretMap, name, t) ==
  LET secretRef == get(raw, <<"auth", "password">>, Str(""))
      secretKey == SecretKeyOf(secretRef)
      resolved == SecretResolves(secretKey, secretMap)
      auth == IF isNil(secretRef) THEN Undefined
              ELSE IF resolved
                   THEN With(GetProp(raw, "auth"), "password", GetProp(secretMap, secretKey.s))
                   ELSE EmptyObject
      ref == IF isNil(secretRef) \/ resolved THEN secretRef ELSE Str("")
  IN DockerInfo(With(With(raw, "auth", auth), "secretRef", ref), name, t)

\* PrunedAuth without the overwrite of password by secretRef
PrunedAuth_KeepsPassword(this) == Spread(GetProp(this, "auth"), EmptyObject)

\* lines 57-60: the auth convertToProtocolFormat emits
PrunedAuth(this) ==
  LET prunedAuth == Spread(GetProp(this, "auth"), EmptyObject)
  IN IF ~isEmpty(GetProp(this, "secretRef"))
     THEN With(prunedAuth, "password", GetProp(this, "secretRef"))
     ELSE prunedAuth

\* DockerInfo.convertToProtocolFormat()
convertToProtocolFormat(this) ==
  removeEmptyProperties(Obj([type |-> Str("dockerimage"),
                             auth |-> PrunedAuth(this),
                             uri |-> GetProp(this, "uri"),
                             name |-> GetProp(this, "name")]))

(***************************************************************************)
(* job-protocol.js                                                         *)
(***************************************************************************)
\* the fields the constructor destructures from props
PropFields ==
  {"name", "jobRetryCount", "prerequisites", "parameters", "taskRoles",
   "deployments", "description", "contributor", "secrets", "defaults", "extras"}

\* new JobProtocol(props): destructuring null or undefined throws
JobProtocol(p) ==
  IF isNil(p) THEN TypeError
  ELSE Obj([protocolVersion |-> Num(2),
            name |-> Or(GetProp(p, "name"), Str("")),
            description |-> Or(GetProp(p, "description"), Str("")),
            contributor |-> Or(GetProp(p, "contributor"), Str("")),
            type |-> Str("job"),
            jobRetryCount |-> Or(GetProp(p, "jobRetryCount"), Num(0)),
            prerequisites |-> Or(GetProp(p, "prerequisites"), Arr(<<>>)),
            parameters |-> Or(GetProp(p, "parameters"), EmptyObject),
            taskRoles |-> Or(GetProp(p, "taskRoles"), EmptyObject),
            deployments |-> Or(GetProp(p, "deployments"), EmptyObject),
            secrets |-> Or(GetProp(p, "secrets"), EmptyObject),
            defaults |-> Or(GetProp(p, "defaults"), EmptyObject),
            extras |-> Or(GetProp(p, "extras"), EmptyObject)])

\* the text forms js-yaml reads and writes: a plain or quoted scalar, a
\* mapping, a sequence, the empty text, and a text that is not YAML
YamlPlain(x) == JsValue("yaml-plain", x, 0, <<>>, <<>>)

YamlQuoted(x) == JsValue("yaml-quoted", x, 0, <<>>, <<>>)

YamlMap(f) == JsValue("yaml-map", "", 0, f, <<>>)

YamlSeq(q) == JsValue("yaml-seq", "", 0, <<>>, q)

YamlEmpty == JsValue("yaml-empty", "", 0, <<>>, <<>>)

YamlInvalid == JsValue("yaml-invalid", "", 0, <<>>, <<>>)

IsYaml(x) ==
  x.t \in {"yaml-plain", "yaml-quoted", "yaml-map", "yaml-seq", "yaml-empty", "yaml-invalid"}

RECURSIVE AllDigits(_)
AllDigits(x) == x = "" \/ (Head(x) \in Digit /\ AllDigits(Tail(x)))

RECURSIVE IntOf(_)
IntOf(x) ==
  IF x = "" THEN 0
  ELSE 10 * IntOf(SubSeq(x, 1, Len(x) - 1))
         + (CHOOSE d \in 0..9 : ToString(d) = CharAt(x, Len(x)))

\* the value a plain scalar resolves to (null, boolean, integer, else string)
PlainResolve(x) ==
  CASE x \in {"", "~", "null", "Null", "NULL"} -> Null
    [] x \in {"true", "True", "TRUE"} -> Bool(TRUE)
    [] x \in {"false", "False", "FALSE"} -> Bool(FALSE)
    [] AllDigits(x) -> Num(IntOf(x))
    [] OTHER -> Str(x)

\* yaml.safeLoad of a text that parses
RECURSIVE LoadNode(_)
LoadNode(y) ==
  CASE y.t = "yaml-plain" -> PlainResolve(y.s)
    [] y.t = "yaml-quoted" -> Str(y.s)
    [] y.t = "yaml-map" -> Obj([k \in DOMAIN y.o |-> LoadNode(y.o[k])])
    [] y.t = "yaml-seq" -> Arr([i \in DOMAIN y.a |-> LoadNode(y.a[i])])
    [] OTHER -> Undefined

\* yaml.safeLoad(text): undefined for the empty text, an exception for a
\* text that is not YAML
safeLoad(y) == IF y.t = "yaml-invalid" THEN YAMLException ELSE LoadNode(y)

\* safeDump accepts v: no undefined and no function anywhere in it
RECURSIVE Dumpable(_)
Dumpable(v) ==
  CASE v.t \in {"string", "number", "boolean", "null"} -> TRUE
    [] v.t = "object" -> \A k \in DOMAIN v.o : Dumpable(v.o[k])
    [] v.t = "array" -> \A i \in DOMAIN v.a : Dumpable(v.a[i])
    [] OTHER -> FALSE

\* a string is written quoted when its plain form would not read back as it
RECURSIVE DumpNode(_)
DumpNode(v) ==
  CASE v.t = "string" -> IF PlainResolve(v.s) = Str(v.s) THEN YamlPlain(v.s) ELSE YamlQuoted(v.s)
    [] v.t = "number" -> YamlPlain(ToString(v.n))
    [] v.t = "boolean" -> YamlPlain(IF v.n = 1 THEN "true" ELSE "false")
    [] v.t = "null" -> YamlPlain("null")
    [] v.t = "object" -> YamlMap([k \in DOMAIN v.o |-> DumpNode(v.o[k])])
    [] OTHER -> YamlSeq([i \in DOMAIN v.a |-> DumpNode(v.a[i])])

\* yaml.safeDump(v)
safeDump(v) == IF Dumpable(v) THEN DumpNode(v) ELSE YAMLException

Threw(r) == r \in {TypeError, YAMLException}

\* the body of the try block of fromYaml: the document, or what was thrown
TryFromYaml(y) ==
  LET jobProtocolLoaded == safeLoad(y)
  IN IF Threw(jobProtocolLoaded) THEN jobProtocolLoaded ELSE JobProtocol(jobProtocolLoaded)

\* JobProtocol.fromYaml(protocolYaml): the catch block alerts and returns nothing
fromYaml(y) == IF Threw(TryFromYaml(y)) THEN Undefined ELSE TryFromYaml(y)

\* removeEmptyProperties counting as empty whatever lodash isEmpty does,
\* numbers and booleans included
PruneByIsEmpty(v) ==
  IF v.t = "object" THEN Obj([k \in {x \in DOMAIN v.o : ~isEmpty(v.o[x])} |-> v.o[k]]) ELSE v

\* toYaml pruning with lodash isEmpty alone
TryToYaml_PrunesNumbers(this) == safeDump(PruneByIsEmpty(this))

\* the body of the try block of toYaml: the text, or what was thrown
TryToYaml(this) == safeDump(removeEmptyProperties(this))

\* JobProtocol.toYaml(): the catch block alerts and returns nothing
toYaml(this) == IF Threw(TryToYaml(this)) THEN Undefined ELSE TryToYaml(this)

\* edits.map((e) => { const o = {}; o[e.key] = e.value; return o; })
KeyValueObjects(edits) ==
  [i \in DOMAIN edits |-> SetProp(EmptyObject, edits[i].key, edits[i].value)]

\* lines 72-80 and 87-91: the pruned mapping a list of {key, value} edits gives
EditsToMapping(edits) ==
  removeEmptyProperties(reduce(KeyValueObjects(edits), EmptyObject))

\* JobProtocol._generateDeployments(jobTaskRoles)
_generateDeployments(roles) ==
  removeEmptyProperties(
    reduce([i \in DOMAIN roles |->
              SetProp(EmptyObject, roles[i].name, roles[i].deployment)],
           EmptyObject))

\* Map.prototype.set keeping the first position of a key
MapSet_FirstWins(m, k, v) ==
  IF \E i \in DOMAIN m : m[i].key = k THEN m
  ELSE Append(m, [key |-> k, value |-> v])

\* Map.prototype.set: a known key keeps its place and takes the new value
MapSet(m, k, v) ==
  IF \E i \in DOMAIN m : m[i].key = k
  THEN [i \in DOMAIN m |-> IF m[i].key = k THEN [key |-> k, value |-> v] ELSE m[i]]
  ELSE Append(m, [key |-> k, value |-> v])

\* prerequisites.forEach((value) => map.set(value.name, value))
RECURSIVE MapSetAll(_, _)
MapSetAll(m, values) ==
  IF values = <<>> THEN m
  ELSE MapSetAll(MapSet(m, GetProp(Head(values), "name"), Head(values)), Tail(values))

\* JobProtocol._getTaskRolesPrerequisites(jobTaskRoles)
_getTaskRolesPrerequisites(roles) ==
  LET prerequisites == [i \in DOMAIN roles |-> roles[i].dockerPrerequisite]
      map == MapSetAll(<<>>, prerequisites)
  IN Arr([i \in DOMAIN map |-> map[i].value])

\* JobProtocol._updateAndConvertTaskRoles(jobTaskRoles)
_updateAndConvertTaskRoles(roles) ==
  reduce([i \in DOMAIN roles |-> roles[i].protocolFormat], EmptyObject)

\* lines 81-83: the deployments of the updated document
DeploymentsOf(this, roles) ==
  LET deployments == _generateDeployments(roles)
      delpoyName == get(this, <<"defaults", "deployment">>, Str("defaultDeployment"))
  IN IF isEmpty(deployments) THEN Arr(<<>>)
     ELSE Arr(<<Obj([name |-> delpoyName, taskRoles |-> deployments])>>)

\* the six fields getUpdatedProtocol computes (lines 97-102)
ComputedFields(this, basicInfo, roles, parameters, secretEdits) ==
  Obj([parameters |-> EditsToMapping(parameters),
       taskRoles |-> _updateAndConvertTaskRoles(roles),
       prerequisites |-> _getTaskRolesPrerequisites(roles),
       deployments |-> DeploymentsOf(this, roles),
       secrets |-> EditsToMapping(secretEdits),
       defaults |-> removeEmptyProperties(basicInfo.defaults)])

\* getUpdatedProtocol spreading the basic info over the computed fields
getUpdatedProtocol_BasicInfoLast(this, basicInfo, roles, parameters, secretEdits) ==
  JobProtocol(Spread(Spread(this, ComputedFields(this, basicInfo, roles, parameters, secretEdits)),
                     basicInfo.protocolFormat))

\* JobProtocol.getUpdatedProtocol(jobBasicInfo, jobTaskRoles, jobParameters, jobSecrets)
getUpdatedProtocol(this, basicInfo, roles, parameters, secretEdits) ==
  JobProtocol(Spread(Spread(this, basicInfo.protocolFormat),
                     ComputedFields(this, basicInfo, roles, parameters, secretEdits)))


(***************************************************************************)
(* The inputs fromProtocol is exercised on                                 *)
(***************************************************************************)
MaxClock == 1

\* the token the secrets card tells the user to write
Token(K) == "<% $secrets." \o K \o " %>"

SecretKeyNames == {"k1", "k2", "constructor"}

SecretValues == {Str("hunter2"), Str(""), Null}

\* secret mappings over k1 and constructor; k2 is never defined
SecretMappings ==
  {Obj([k \in K |-> f[k]]) : K \in SUBSET {"k1", "constructor"},
                             f \in [{"k1", "constructor"} -> SecretValues]}

Passwords ==
  {Null, Str(""), Str("hunter2"), Num(7),
   Str(Token("k1")), Str(Token("k2")), Str(Token("constructor")),
   Str(Token("k1") \o "garbage"),
   Str("<% $secrets:k1 %>"), Str("<% $secrets.1k %>"), Str(" " \o Token("k1"))}

RawAuths ==
  {Undefined, EmptyObject, Obj([username |-> Str("bob")])}
    \cup {Obj([password |-> p]) : p \in Passwords}
    \cup {Obj([username |-> Str("bob"), password |-> p]) : p \in Passwords}

RawPrerequisites ==
  {Undefined} \cup
  {Obj((IF a = Undefined THEN <<>> ELSE [auth |-> a])
       @@ [type |-> Str("dockerimage"), uri |-> Str(u), name |-> Str(n)]) :
     u \in {"", "repo/img"}, n \in {"", "img"}, a \in RawAuths}

\* window.name is a string of the embedding page's choosing
GlobalNames == {Str(""), Str("img")}

(***************************************************************************)
(* Specification of the container reference model                          *)
(***************************************************************************)
IdleUpdate ==
  /\ receiver = None /\ jobBasicInfo = None /\ jobTaskRoles = <<>>
  /\ jobParameters = <<>> /\ jobSecrets = <<>> /\ updated = None

IdleYaml ==
  /\ props = None /\ jobProtocol = None /\ protocolYaml = None
  /\ parsed = None /\ alerts = 0

IdleDocker ==
  /\ dockerInfoProtocol = None /\ secrets = None /\ globalName = Str("")
  /\ now = 0 /\ dockerInfo = None /\ prerequisite = None

InitDocker ==
  /\ dockerInfoProtocol \in RawPrerequisites
  /\ secrets \in SecretMappings
  /\ globalName \in GlobalNames
  /\ now = 0 /\ dockerInfo = None /\ prerequisite = None
  /\ IdleUpdate /\ IdleYaml

\* DockerInfo.fromProtocol(dockerInfoProtocol, secrets); Date.now() has moved on
FromProtocol ==
  /\ dockerInfo = None
  /\ \E t \in now..MaxClock :
       /\ now' = t
       /\ dockerInfo' = fromProtocol(dockerInfoProtocol, secrets, globalName, t)
  /\ UNCHANGED <<dockerInfoProtocol, secrets, globalName, prerequisite,
                 updateVars, yamlVars>>

\* dockerInfo.convertToProtocolFormat()
ConvertToProtocolFormat ==
  /\ dockerInfo # None
  /\ prerequisite = None
  /\ prerequisite' = convertToProtocolFormat(dockerInfo)
  /\ UNCHANGED <<dockerInfoProtocol, secrets, globalName, now, dockerInfo,
                 updateVars, yamlVars>>

NextDocker == FromProtocol \/ ConvertToProtocolFormat

SpecDocker == InitDocker /\ [][NextDocker]_vars

(***************************************************************************)
(* The inputs getUpdatedProtocol is exercised on                           *)
(***************************************************************************)
MaxEdits == 3

MaxRoles == 3

\* the rows of the parameters and secrets cards: {key, value}
Edit(k, v) == [key |-> k, value |-> Str(v)]

Edits ==
  {Edit("a", "1"), Edit("a", "2"), Edit("a", ""), Edit("b", ""), Edit("b", "1"),
   Edit("__proto__", "1")}

EditLists(n) == UNION {[1..k -> Edits] : k \in 0..n}

\* (jobParameters, jobSecrets): one list varied at a time, or one row in each
EditPairs ==
  {<<e, <<>>>> : e \in EditLists(MaxEdits)}
    \cup {<<<<>>, e>> : e \in EditLists(MaxEdits)}
    \cup (EditLists(1) \X EditLists(1))

\* what a task role shows getUpdatedProtocol: its name and the results of
\* getDockerPrerequisite(), getDeployment() and convertToProtocolFormat()
Prerequisite(n, u) ==
  Obj([type |-> Str("dockerimage"), name |-> Str(n), uri |-> Str(u)])

\* a prerequisite that lost its name (convertToProtocolFormat prunes an empty one)
NamelessPrerequisite(u) == Obj([type |-> Str("dockerimage"), uri |-> Str(u)])

TaskRole(n, prereq, deployment) ==
  [name |-> n,
   dockerPrerequisite |-> prereq,
   deployment |-> deployment,
   protocolFormat |-> Obj(n :> Obj([instances |-> Num(1),
                                     dockerImage |-> GetProp(prereq, "name")]))]

PreCommands == Obj([preCommands |-> Arr(<<Str("echo 1")>>)])

PostCommands == Obj([postCommands |-> Arr(<<Str("echo 2")>>)])

TaskRoles ==
  {TaskRole("r1", Prerequisite("a", "u1"), EmptyObject),
   TaskRole("r2", Prerequisite("b", "u1"), PreCommands),
   TaskRole("r1", Prerequisite("a", "u2"), PostCommands),
   TaskRole("r3", Prerequisite("b", "u2"), EmptyObject),
   TaskRole("r4", NamelessPrerequisite("u3"), PostCommands),
   TaskRole("__proto__", Prerequisite("c", "u1"), PreCommands)}

TaskRoleLists == UNION {[1..k -> TaskRoles] : k \in 0..MaxRoles}

\* what the basic info shows: getDefaults() and convertToProtocolFormat()
BasicInfo(d, f) == [defaults |-> d, protocolFormat |-> f]

BasicDefaults == {Obj([virtualCluster |-> Str("")]), Obj([virtualCluster |-> Str("vc")])}

\* fields a basic info may supply, with filled-in and with empty values;
\* parameters and defaults are names of computed fields
BasicFilled ==
  [name |-> Str("job"), description |-> Str("desc"), contributor |-> Str("me"),
   jobRetryCount |-> Num(3), extras |-> Obj([hivedScheduler |-> Str("x")]),
   parameters |-> Obj([p |-> Str("basic")]), defaults |-> Obj([deployment |-> Str("basic")])]

BasicBlank ==
  [name |-> Str(""), description |-> Str(""), contributor |-> Str(""),
   jobRetryCount |-> Num(0), extras |-> EmptyObject,
   parameters |-> EmptyObject, defaults |-> EmptyObject]

BasicFormats ==
  {Obj([k \in K |-> f[k]]) : K \in SUBSET DOMAIN BasicFilled, f \in {BasicFilled, BasicBlank}}

BasicInfos == {BasicInfo(d, f) : d \in BasicDefaults, f \in BasicFormats}

PlainBasicInfo == BasicInfo(Obj([virtualCluster |-> Str("vc")]), Obj([name |-> Str("job")]))

\* documents getUpdatedProtocol is called on
Receivers ==
  {JobProtocol(EmptyObject),
   JobProtocol(Obj([name |-> Str("old"), description |-> Str("old desc"),
                    jobRetryCount |-> Num(1),
                    parameters |-> Obj([p |-> Str("old")]),
                    defaults |-> Obj([deployment |-> Str("prod")]),
                    extras |-> Obj([submitFrom |-> Str("ui")])])),
   JobProtocol(Obj([name |-> Str("old"), contributor |-> Str("you"),
                    defaults |-> Obj([virtualCluster |-> Str("vc")])]))}

(***************************************************************************)
(* Specification of getUpdatedProtocol                                     *)
(***************************************************************************)
InitEdits ==
  /\ receiver \in Receivers
  /\ jobBasicInfo = PlainBasicInfo
  /\ jobTaskRoles = <<>>
  /\ \E e \in EditPairs : jobParameters = e[1] /\ jobSecrets = e[2]

InitRoles ==
  /\ receiver \in Receivers
  /\ jobBasicInfo = PlainBasicInfo
  /\ jobTaskRoles \in TaskRoleLists
  /\ jobParameters = <<>> /\ jobSecrets = <<>>

InitBasic ==
  /\ receiver \in Receivers
  /\ jobBasicInfo \in BasicInfos
  /\ jobTaskRoles \in UNION {[1..k -> TaskRoles] : k \in 0..1}
  /\ jobParameters = <<>> /\ jobSecrets = <<>>

InitUpdate ==
  /\ InitEdits \/ InitRoles \/ InitBasic
  /\ updated = None
  /\ IdleDocker /\ IdleYaml

GetUpdatedProtocol ==
  /\ updated = None
  /\ updated' = getUpdatedProtocol(receiver, jobBasicInfo, jobTaskRoles,
                                    jobParameters, jobSecrets)
  /\ UNCHANGED <<receiver, jobBasicInfo, jobTaskRoles, jobParameters, jobSecrets,
                 dockerVars, yamlVars>>

NextUpdate == GetUpdatedProtocol

SpecUpdate == InitUpdate /\ [][NextUpdate]_vars

(***************************************************************************)
(* The inputs the constructor, toYaml and fromYaml are exercised on        *)
(***************************************************************************)
\* a document with every field filled in
FilledProps(name, retries) ==
  [name |-> name,
   jobRetryCount |-> Num(retries),
   prerequisites |-> Arr(<<Prerequisite("a", "u1")>>),
   parameters |-> Obj([p |-> Str("1")]),
   taskRoles |-> Obj([r1 |-> Obj([instances |-> Num(1), dockerImage |-> Str("a")])]),
   deployments |-> Arr(<<Obj([name |-> Str("prod"),
                              taskRoles |-> Obj([r1 |-> PreCommands])])>>),
   description |-> Str("desc"),
   contributor |-> Str("me"),
   secrets |-> Obj([k1 |-> Str("hunter2")]),
   defaults |-> Obj([deployment |-> Str("prod")]),
   extras |-> Obj([submitFrom |-> Str("ui")])]

\* every field present and empty
BlankProps ==
  [name |-> Str(""), jobRetryCount |-> Num(0), prerequisites |-> Arr(<<>>),
   parameters |-> EmptyObject, taskRoles |-> EmptyObject, deployments |-> Arr(<<>>),
   description |-> Str(""), contributor |-> Str(""), secrets |-> EmptyObject,
   defaults |-> EmptyObject, extras |-> EmptyObject]

\* names a YAML reader could take for something else than a string
PropNames == {Str("job"), Str("123"), Str("true"), Str("null"), Num(7)}

PropRetries == {0, 3}

\* fields the constructor does not take from props
ForeignFields == [protocolVersion |-> Num(1), type |-> Str("other"), foo |-> Str("bar")]

PropsSet ==
  {Undefined, Null, Str("hello"), Num(5),
   Obj(ForeignFields @@ FilledProps(Str("job"), 3)),
   Obj([extras |-> Obj([f |-> Builtin("toString")])])}
    \cup {Obj([k \in K |-> FilledProps(n, r)[k]]) :
            K \in SUBSET PropFields, n \in PropNames, r \in PropRetries}
    \cup {Obj([k \in PropFields |-> IF k \in K THEN FilledProps(Str("job"), 3)[k]
                                                ELSE BlankProps[k]]) :
            K \in SUBSET PropFields}

\* texts that do not come from toYaml
ForeignTexts ==
  {YamlEmpty, YamlInvalid, YamlPlain("hello"), YamlPlain("~"), YamlMap(<<>>),
   YamlMap([name |-> YamlPlain("123"), jobRetryCount |-> YamlQuoted("3")])}

(***************************************************************************)
(* Specification of the constructor and the YAML round trip                *)
(***************************************************************************)
InitYaml ==
  /\ \/ props \in PropsSet /\ protocolYaml = None
     \/ props = None /\ protocolYaml \in ForeignTexts
  /\ jobProtocol = None /\ parsed = None /\ alerts = 0
  /\ IdleDocker /\ IdleUpdate

\* new JobProtocol(props)
Construct ==
  /\ props # None
  /\ jobProtocol = None
  /\ jobProtocol' = JobProtocol(props)
  /\ UNCHANGED <<props, protocolYaml, parsed, alerts, dockerVars, updateVars>>

\* jobProtocol.toYaml()
ToYaml ==
  /\ jobProtocol.t = "object"
  /\ protocolYaml = None
  /\ protocolYaml' = toYaml(jobProtocol)
  /\ alerts' = IF Threw(TryToYaml(jobProtocol)) THEN alerts + 1 ELSE alerts
  /\ UNCHANGED <<props, jobProtocol, parsed, dockerVars, updateVars>>

\* JobProtocol.fromYaml(protocolYaml)
FromYaml ==
  /\ IsYaml(protocolYaml)
  /\ parsed = None
  /\ parsed' = fromYaml(protocolYaml)
  /\ alerts' = IF Threw(TryFromYaml(protocolYaml)) THEN alerts + 1 ELSE alerts
  /\ UNCHANGED <<props, jobProtocol, protocolYaml, dockerVars, updateVars>>

NextYaml == Construct \/ ToYaml \/ FromYaml

SpecYaml == InitYaml /\ [][NextYaml]_vars

(***************************************************************************)
(* Properties of the container reference model                             *)
(***************************************************************************)
\* auth.password of the raw prerequisite, undefined when there is none
RawPassword == get(dockerInfoProtocol, <<"auth", "password">>, Undefined)

\* auth.password of the mapping convertToProtocolFormat returned
OutPassword == get(prerequisite, <<"auth", "password">>, Undefined)

RefAuth == dockerInfo.o["auth"]

RefSecretRef == dockerInfo.o["secretRef"]

\* the secret mapping holds a value for K as an own key (a key mapped to
\* null holds none)
Contains(sm, K) == K \in DOMAIN sm.o /\ ~isNil(sm.o[K])

\* C1: the mapping convertToProtocolFormat returns for the reference built by
\* fromProtocol never carries the resolved secret in auth.password: when
\* secretRef is non-empty auth.password is the reference as the raw
\* prerequisite wrote it, not the value it resolved to, and otherwise
\* auth.password is absent.
C1_NoPlaintextSecret ==
  prerequisite # None =>
    IF ~isEmpty(RefSecretRef)
    THEN /\ OutPassword = RawPassword
         /\ OutPassword = RefSecretRef
         /\ SECRET_PATTERN_exec(OutPassword) # Null
         /\ OutPassword # GetProp(RefAuth, "password")
    ELSE OutPassword = Undefined

C1_Witness ==
  /\ prerequisite # None
  /\ GetProp(RefAuth, "password") = Str("hunter2")
  /\ GetProp(secrets, "k1") = Str("hunter2")
  /\ OutPassword = Str(Token("k1"))

\* C2 as stated: for a raw password '<% $secrets.K %>' and a secret mapping
\* that contains K, fromProtocol gives auth.password = secrets[K] and
\* secretRef = K, the key name.
C2_SecretRefIsKeyName ==
  dockerInfo # None =>
    \A K \in SecretKeyNames :
      (RawPassword = Str(Token(K)) /\ Contains(secrets, K)) =>
        /\ GetProp(RefAuth, "password") = secrets.o[K]
        /\ RefSecretRef = Str(K)

\* C2 amended: for a raw password '<% $secrets.K %>' and a secret mapping
\* that contains K, fromProtocol gives
\* auth.password = secrets[K] and secretRef = the token '<% $secrets.K %>'
\* itself (the whole original password), not the key name.
C2_SecretRefIsToken ==
  dockerInfo # None =>
    \A K \in SecretKeyNames :
      (RawPassword = Str(Token(K)) /\ Contains(secrets, K)) =>
        /\ GetProp(RefAuth, "password") = secrets.o[K]
        /\ RefSecretRef = Str(Token(K))

C2_Witness ==
  /\ dockerInfo # None
  /\ RawPassword = Str(Token("k1"))
  /\ Contains(secrets, "k1")
  /\ secrets.o["k1"] = Str("hunter2")
  /\ GetProp(RefAuth, "password") = Str("hunter2")
  /\ RefSecretRef = Str(Token("k1"))

\* the raw password matches the pattern and names the key K
NamesKey(K) ==
  LET m == SECRET_PATTERN_exec(RawPassword) IN m # Null /\ m.a[2] = Str(K)

\* C3: when auth.password does not match the secret-reference pattern, or
\* matches but names a key absent from the secret mapping, fromProtocol
\* returns a reference with auth = {} and secretRef = ''.
C3_DanglingReferenceDropped ==
  (/\ dockerInfo # None
   /\ \/ SECRET_PATTERN_exec(RawPassword) = Null
      \/ \E K \in SecretKeyNames : NamesKey(K) /\ ~Contains(secrets, K))
    => /\ dockerInfo.t = "object"
       /\ RefAuth = EmptyObject
       /\ RefSecretRef = Str("")

\* the raw prerequisite has the form {type: 'dockerimage', uri, name, auth}
\* with non-empty uri and name and a password that matches the pattern and
\* names a key the secret mapping holds a value for
WellFormedReference ==
  /\ dockerInfoProtocol.t = "object"
  /\ DOMAIN dockerInfoProtocol.o = {"type", "uri", "name", "auth"}
  /\ dockerInfoProtocol.o["uri"] # Str("")
  /\ dockerInfoProtocol.o["name"] # Str("")
  /\ \E K \in SecretKeyNames :
       NamesKey(K) /\ Contains(secrets, K)

\* C10: fromProtocol followed by convertToProtocolFormat gives back a
\* well-formed raw prerequisite unchanged: name, uri, the other auth fields
\* and the original password string.
C10_ReferenceRoundTrip ==
  (prerequisite # None /\ WellFormedReference) => prerequisite = dockerInfoProtocol

(***************************************************************************)
(* Properties of getUpdatedProtocol                                        *)
(***************************************************************************)
\* the names of the prerequisites of the task roles, in task-role order
PrerequisiteNames == [i \in DOMAIN jobTaskRoles |->
                        GetProp(jobTaskRoles[i].dockerPrerequisite, "name")]

\* the positions at which a prerequisite name appears for the first time
FirstAppearances ==
  {i \in DOMAIN jobTaskRoles :
     \A j \in 1..(i - 1) : PrerequisiteNames[j] # PrerequisiteNames[i]}

\* the last position carrying the prerequisite name of position i
LastWithNameOf(i) ==
  CHOOSE j \in DOMAIN jobTaskRoles :
    /\ PrerequisiteNames[j] = PrerequisiteNames[i]
    /\ \A l \in (j + 1)..Len(jobTaskRoles) : PrerequisiteNames[l] # PrerequisiteNames[i]

UpdatedPrerequisites == updated.o["prerequisites"].a

\* C4: the prerequisites of the updated document hold exactly one entry per
\* distinct prerequisite name, that of the last task role carrying the
\* name, ordered by the first appearance of each name.
C4_PrerequisitesLastWinsFirstSeenOrder ==
  updated # None =>
    /\ updated.o["prerequisites"].t = "array"
    /\ Len(UpdatedPrerequisites) = Cardinality(FirstAppearances)
    /\ \A i \in FirstAppearances :
         LET rank == Cardinality({j \in FirstAppearances : j <= i})
         IN UpdatedPrerequisites[rank] = jobTaskRoles[LastWithNameOf(i)].dockerPrerequisite

\* task roles [A, B, A'] where A and A' share a prerequisite name and differ
C4_Witness ==
  /\ updated # None
  /\ Len(jobTaskRoles) = 3
  /\ PrerequisiteNames[1] = PrerequisiteNames[3]
  /\ PrerequisiteNames[1] # PrerequisiteNames[2]
  /\ jobTaskRoles[1].dockerPrerequisite # jobTaskRoles[3].dockerPrerequisite
  /\ UpdatedPrerequisites =
       <<jobTaskRoles[3].dockerPrerequisite, jobTaskRoles[2].dockerPrerequisite>>

\* the value of the last edit with key k
LastValue(edits, k) ==
  edits[CHOOSE i \in DOMAIN edits :
          edits[i].key = k /\ \A j \in (i + 1)..Len(edits) : edits[j].key # k].value

\* for each key the value of its last edit, without the keys whose last value is empty
LastWins(edits) ==
  LET keys == {edits[i].key : i \in DOMAIN edits}
  IN Obj([k \in {x \in keys : LastValue(edits, x) # Str("")} |-> LastValue(edits, k)])

\* C5: the parameters (and the secrets) of the updated document hold, for
\* each key of the edits, the value of the last edit with that key, and no
\* key whose last value is empty.
C5_EditsLastWinsEmptyDropped ==
  updated # None =>
    /\ updated.o["parameters"] = LastWins(jobParameters)
    /\ updated.o["secrets"] = LastWins(jobSecrets)

\* the deployment fragment of the last task role named n
LastDeployment(n) ==
  jobTaskRoles[CHOOSE i \in DOMAIN jobTaskRoles :
                 /\ jobTaskRoles[i].name = n
                 /\ \A j \in (i + 1)..Len(jobTaskRoles) : jobTaskRoles[j].name # n].deployment

\* the mapping from task-role name to its non-empty deployment fragment
DeploymentFragments ==
  LET names == {jobTaskRoles[i].name : i \in DOMAIN jobTaskRoles}
  IN Obj([n \in {x \in names : LastDeployment(x) # EmptyObject} |-> LastDeployment(n)])

\* defaults.deployment of the receiver, 'defaultDeployment' when it has none
DeploymentName ==
  IF "deployment" \in DOMAIN receiver.o["defaults"].o
  THEN receiver.o["defaults"].o["deployment"]
  ELSE Str("defaultDeployment")

\* C8: when the mapping from task-role name to its non-empty deployment
\* fragment is non-empty, deployments is the single group {name, taskRoles}
\* of that mapping under the receiver's defaults.deployment (or
\* 'defaultDeployment'); when it is empty, deployments is empty.
C8_SingleDeploymentGroup ==
  updated # None =>
    updated.o["deployments"] =
      IF DeploymentFragments # EmptyObject
      THEN Arr(<<Obj([name |-> DeploymentName, taskRoles |-> DeploymentFragments])>>)
      ELSE Arr(<<>>)

PlainFields == {"name", "description", "contributor", "jobRetryCount", "extras"}

\* C9: getUpdatedProtocol returns a new document (the action leaves the
\* receiver as it was); each of its fields other than the six computed ones
\* is the value the basic info supplies, else the receiver's; the six
\* computed fields hold the computed values whatever the basic info
\* supplies.
C9_ComputedOverBasicOverReceiver ==
  updated # None =>
    /\ \A f \in PlainFields :
         updated.o[f] = IF f \in DOMAIN jobBasicInfo.protocolFormat.o
                        THEN jobBasicInfo.protocolFormat.o[f]
                        ELSE receiver.o[f]
    /\ updated.o["parameters"] = EditsToMapping(jobParameters)
    /\ updated.o["secrets"] = EditsToMapping(jobSecrets)
    /\ updated.o["taskRoles"] = _updateAndConvertTaskRoles(jobTaskRoles)
    /\ updated.o["prerequisites"] = _getTaskRolesPrerequisites(jobTaskRoles)
    /\ updated.o["deployments"] = DeploymentsOf(receiver, jobTaskRoles)
    /\ updated.o["defaults"] = removeEmptyProperties(jobBasicInfo.defaults)
    /\ updated.o["protocolVersion"] = Num(2)
    /\ updated.o["type"] = Str("job")

\* the basic info supplies a name and a computed field, and leaves the
\* description to the receiver
C9_Witness ==
  /\ updated # None
  /\ {"name", "parameters", "defaults"} \subseteq DOMAIN jobBasicInfo.protocolFormat.o
  /\ "description" \notin DOMAIN jobBasicInfo.protocolFormat.o
  /\ jobBasicInfo.protocolFormat.o["parameters"] = Obj([p |-> Str("basic")])
  /\ receiver.o["description"] = Str("old desc")
  /\ updated.o["name"] = Str("job")
  /\ updated.o["description"] = Str("old desc")
  /\ updated.o["parameters"] = EmptyObject
  /\ updated.o["defaults"] = Obj([virtualCluster |-> Str("vc")])

(***************************************************************************)
(* Properties of the constructor and the YAML round trip                   *)
(***************************************************************************)
\* the document was serialized by toYaml and parsed back by fromYaml
RoundTripped == props # None /\ IsYaml(protocolYaml) /\ parsed # None

\* pruning finds nothing to remove in the document
NoEmptyPrunableFields(d) == d.t = "object" /\ removeEmptyProperties(d) = d

\* C6: a document without empty-prunable fields comes back from
\* fromYaml(toYaml()) equal field by field.
C6_YamlRoundTrip ==
  (RoundTripped /\ NoEmptyPrunableFields(jobProtocol)) => parsed = jobProtocol

\* a round trip of a document whose name and retry count a YAML reader
\* could mistake
C6_Witness ==
  /\ RoundTripped
  /\ NoEmptyPrunableFields(jobProtocol)
  /\ jobProtocol.o["name"] = Str("123")
  /\ jobProtocol.o["jobRetryCount"] = Num(3)
  /\ protocolYaml.o["name"] = YamlQuoted("123")
  /\ parsed = jobProtocol

DocumentFields ==
  {"protocolVersion", "name", "description", "contributor", "jobRetryCount",
   "prerequisites", "parameters", "taskRoles", "deployments", "secrets",
   "defaults", "extras"}

AllFieldsDefined(d) ==
  /\ d.t = "object"
  /\ \A f \in DocumentFields : f \in DOMAIN d.o /\ d.o[f] # Undefined

\* C7: constructing a JobProtocol never fails, whatever the fields input
\* (the result of parsing an empty text included), and the document has
\* every field defined.
C7_ConstructNeverFails ==
  /\ jobProtocol # None => AllFieldsDefined(jobProtocol)
  /\ (parsed # None /\ ~Threw(safeLoad(protocolYaml))) => AllFieldsDefined(parsed)

=============================================================================
